---- MODULE Spec2Model ----
(***************************************************************************)
(* A model of webapi-mcp-server: the registry of API definitions           *)
(* (src/mcp-server.js), the tools it binds on the MCP server, the global   *)
(* header scope of the built-in tools, the definition validator            *)
(* (src/validators/api-validator.js), the request executors (the generated *)
(* tool handler, api-tools.js, httpClient.js), the parsers of definitions  *)
(* (parseJsonAPI, parsers/markdown-parser.js) and the loaders of files,    *)
(* directories and configuration files.                                    *)
(*                                                                         *)
(* JavaScript values are encoded as strings so that any two of them can be *)
(* compared: Undef is `undefined` (an absent field), "" the empty string.  *)
(***************************************************************************)
EXTENDS Integers, Sequences, FiniteSets, TLC

VARIABLES
    apiRegistry,    \* mcp-server.js: const apiRegistry = new Map()
    tools,          \* the tools bound on the McpServer made by createServer
    globalHeaders,  \* registerBuiltinTools: const globalHeaders = {}
    sdkGetTool,     \* whether the server object answers getTool(name)
    toolsRegistry,  \* api-tools.js: const apiRegistry = new Map()
    pendingLoads,   \* the calls of loadApisFromDirectory nobody awaits
    last,           \* the last call made and what it returned
    loaded          \* what the last call of a loader or a parser was given

vars ==
    <<apiRegistry, tools, globalHeaders, sdkGetTool, toolsRegistry, pendingLoads,
      last, loaded>>

(***************************************************************************)
(* Values                                                                  *)
(***************************************************************************)
Undef == "undefined"

\* JavaScript truthiness of a string-or-undefined value: !x
Falsy(x) == x \in {Undef, ""}

BuiltinTools ==
    {"register_web_api", "set_default_headers", "list_registered_apis",
     "unregister_api", "load_api_from_file", "load_apis_from_directory",
     "load_from_config"}

ApiNames == {"a", "A"}

\* the names the model registers, looks up and invokes
ToolNames == ApiNames \cup BuiltinTools

HeaderNames == {"A", "B", "Content-Type"}

NoHeaders == [h \in HeaderNames |-> Undef]

\* { ...under, ...over }
Spread(under, over) ==
    [h \in HeaderNames |-> IF over[h] # Undef THEN over[h] ELSE under[h]]

\* one declared parameter, "p": its spec is absent, a scalar, or a mapping
NoParam == [shape |-> "absent", type |-> Undef, required |-> Undef,
            description |-> Undef]

ParamTypes == {"string", "number", "boolean", "object", "array"}

HttpMethods == {"GET", "POST", "PUT", "DELETE", "PATCH", "HEAD", "OPTIONS"}

\* String.prototype.toUpperCase / toLowerCase on the spellings the model uses
ToUpperCase(s) ==
    CASE s = "get" -> "GET"
      [] s = "post" -> "POST"
      [] s = "delete" -> "DELETE"
      [] s = "Put" -> "PUT"
      [] s = "trace" -> "TRACE"
      [] OTHER -> s

ToLowerCase(s) ==
    CASE s = "Number" -> "number"
      [] s = "STRING" -> "string"
      [] s = "Date" -> "date"
      [] s \in {"TRUE", "True"} -> "true"
      [] s = "A" -> "a"
      [] s = ".JSON" -> ".json"
      [] s = "API Name" -> "api name"
      [] s = "Description" -> "description"
      [] s = "URL" -> "url"
      [] s = "Method" -> "method"
      [] s = "Parameters" -> "parameters"
      [] s = "Result Path" -> "result path"
      [] s = "Headers" -> "headers"
      [] s = "Weather API" -> "weather api"
      [] OTHER -> s

\* str.replace(/\s+/g, '_'): every run of blanks becomes one underscore
RECURSIVE ReplaceBlanks(_)
ReplaceBlanks(str) ==
    IF Len(str) = 0 THEN str
    ELSE IF SubSeq(str, 1, 1) # " "
    THEN SubSeq(str, 1, 1) \o ReplaceBlanks(SubSeq(str, 2, Len(str)))
    ELSE IF Len(str) > 1 /\ SubSeq(str, 2, 2) = " "
    THEN ReplaceBlanks(SubSeq(str, 2, Len(str)))
    ELSE "_" \o ReplaceBlanks(SubSeq(str, 2, Len(str)))

\* the tool name generateToolRegistrationFunction derives from a name
NormalizeName(name) == ReplaceBlanks(ToLowerCase(name))

\* `null`/`undefined` passed as the definition
NullDef ==
    [nil |-> TRUE, name |-> Undef, url |-> Undef, endpoint |-> Undef,
     method |-> Undef, description |-> Undef, parameters |-> NoParam,
     headers |-> NoHeaders, resultPath |-> Undef, timeout |-> 0]

\* the two flat definitions the model varies
BaseDef(n, k) ==
    IF k = 1
    THEN [NullDef EXCEPT !.nil = FALSE, !.name = n, !.url = "http://h/one"]
    ELSE [NullDef EXCEPT !.nil = FALSE, !.name = n, !.url = "http://h/two",
                         !.method = "post", !.description = "second",
                         !.parameters = [shape |-> "mapping", type |-> "Number",
                                         required |-> Undef,
                                         description |-> Undef],
                         !.headers = [NoHeaders EXCEPT !["A"] = "2"],
                         !.resultPath = "data.items"]

\* the definitions handed to registerApi: the two base definitions under each
\* name, and the first of them with one field changed
NameInputs == ApiNames \cup {"unregister_api"}

Deviations(d) ==
    { [d EXCEPT !.name = Undef], [d EXCEPT !.name = ""],
      [d EXCEPT !.url = Undef], [d EXCEPT !.url = ""],
      [d EXCEPT !.url = Undef, !.endpoint = "/e"],
      [d EXCEPT !.method = "trace"], [d EXCEPT !.method = "get"],
      [d EXCEPT !.method = "delete"],
      [d EXCEPT !.parameters = [shape |-> "scalar", type |-> Undef,
                                required |-> Undef, description |-> Undef]],
      [d EXCEPT !.parameters = [shape |-> "mapping", type |-> "Date",
                                required |-> Undef, description |-> Undef]],
      [d EXCEPT !.parameters = [shape |-> "mapping", type |-> Undef,
                                required |-> "s:TRUE", description |-> Undef]] }

BaseDefs == { BaseDef(n, k) : n \in NameInputs, k \in {1, 2} }

RawDefs ==
    {NullDef} \cup BaseDefs
    \cup Deviations(BaseDef("a", 1))

(***************************************************************************)
(* validators/api-validator.js                                             *)
(***************************************************************************)
\* the `required` of a parameter spec: absent, a string ("s:..."), a boolean
\* ("b:..."), a number ("n:...") or null; "s:shi" is the string U+662F
IsString(r) == Len(r) >= 2 /\ SubSeq(r, 1, 2) = "s:"

\* `required` normalized for strings alone: any other value gives false
NormalizeRequired_StringsOnly(r) ==
    IF r = Undef THEN "b:false"
    ELSE IF IsString(r)
    THEN IF ToLowerCase(SubSeq(r, 3, Len(r))) \in {"true", "shi"}
         THEN "b:true" ELSE "b:false"
    ELSE "b:false"

\* `required` without the coercion of the values that are not strings
NormalizeRequired_NoCoercion(r) ==
    IF r = Undef THEN "b:false"
    ELSE IF IsString(r)
    THEN IF ToLowerCase(SubSeq(r, 3, Len(r))) \in {"true", "shi"}
         THEN "b:true" ELSE "b:false"
    ELSE IF r = "b:true" THEN "b:true" ELSE "b:false"

\* !!value for a value that is not a string
Coerce(r) == IF r \in {"b:false", "n:0", "null", Undef} THEN "b:false" ELSE "b:true"

NormalizeRequired(r) ==
    IF r = Undef THEN "b:false"
    ELSE IF IsString(r)
    THEN IF ToLowerCase(SubSeq(r, 3, Len(r))) \in {"true", "shi"}
         THEN "b:true" ELSE "b:false"
    ELSE Coerce(r)

\* the loop body of validateApiDefinition for the parameter "p"
ValidateParam(p) ==
    IF p.shape # "mapping" THEN [ok |-> FALSE, param |-> p]
    ELSE LET t == IF Falsy(p.type) THEN "string" ELSE ToLowerCase(p.type)
         IN  IF t \notin ParamTypes THEN [ok |-> FALSE, param |-> p]
             ELSE [ok |-> TRUE,
                   param |-> [shape |-> "mapping", type |-> t,
                              required |-> NormalizeRequired(p.required),
                              description |->
                                  IF Falsy(p.description) THEN "p param"
                                  ELSE p.description]]

\* validateApiDefinition without its check of the HTTP method
validateApiDefinition_AnyMethod(d) ==
    IF d.nil \/ Falsy(d.name) \/ Falsy(d.url) THEN [ok |-> FALSE, api |-> d]
    ELSE LET p == IF d.parameters.shape = "absent"
                  THEN [ok |-> TRUE, param |-> NoParam]
                  ELSE ValidateParam(d.parameters)
         IN  IF ~p.ok THEN [ok |-> FALSE, api |-> d]
             ELSE [ok |-> TRUE,
                   api |-> [d EXCEPT !.method = IF Falsy(d.method) THEN "GET"
                                                ELSE ToUpperCase(d.method),
                                     !.parameters = p.param]]

\* validateApiDefinition taking an endpoint in place of a missing url
validateApiDefinition_UrlOrEndpoint(d) ==
    IF d.nil \/ Falsy(d.name) \/ (Falsy(d.url) /\ Falsy(d.endpoint))
    THEN [ok |-> FALSE, api |-> d]
    ELSE LET m == IF Falsy(d.method) THEN "GET" ELSE ToUpperCase(d.method)
             p == IF d.parameters.shape = "absent"
                  THEN [ok |-> TRUE, param |-> NoParam]
                  ELSE ValidateParam(d.parameters)
         IN  IF m \notin HttpMethods \/ ~p.ok THEN [ok |-> FALSE, api |-> d]
             ELSE [ok |-> TRUE,
                   api |-> [d EXCEPT !.method = m,
                                     !.description =
                                         IF Falsy(d.description)
                                         THEN d.name \o " API"
                                         ELSE d.description,
                                     !.parameters = p.param]]

\* validateApiDefinition(apiDef): ok = FALSE stands for the thrown Error
validateApiDefinition(d) ==
    IF d.nil THEN [ok |-> FALSE, api |-> d]
    ELSE IF Falsy(d.name) THEN [ok |-> FALSE, api |-> d]
    ELSE IF Falsy(d.url) THEN [ok |-> FALSE, api |-> d]
    ELSE LET m == IF Falsy(d.method) THEN "GET" ELSE ToUpperCase(d.method)
             p == IF d.parameters.shape = "absent"
                  THEN [ok |-> TRUE, param |-> NoParam]
                  ELSE ValidateParam(d.parameters)
         IN  IF m \notin HttpMethods \/ ~p.ok THEN [ok |-> FALSE, api |-> d]
             ELSE [ok |-> TRUE,
                   api |-> [d EXCEPT !.method = m,
                                     !.description =
                                         IF Falsy(d.description)
                                         THEN d.name \o " API"
                                         ELSE d.description,
                                     !.parameters = p.param]]

(***************************************************************************)
(* The MCP server and the registry (mcp-server.js)                         *)
(***************************************************************************)
\* a tool bound on the server: a built-in one, or the handler registerApi
\* made, which closes over the validated definition
BuiltinBinding == [builtin |-> TRUE, api |-> NullDef]

ApiBinding(api) == [builtin |-> FALSE, api |-> api]

\* Map.prototype.set and Map.prototype.delete
MapSet(m, k, v) == [x \in DOMAIN m \cup {k} |-> IF x = k THEN v ELSE m[x]]

MapDelete(m, k) == [x \in DOMAIN m \ {k} |-> m[x]]

\* server.tool(name, ...) throws "Tool <name> is already registered" when a
\* tool of that name is bound (McpServer of @modelcontextprotocol/sdk 1.x)
ToolAlreadyRegistered(tls, name) == name \in DOMAIN tls

\* the argument `server` of the exported functions: the server made by
\* createServer, or nothing (README: webapi.registerApi(apiDefinition),
\* webapi.unregisterApi('apiName'))
ServerArgs == {"server", Undef}

\* registerApi storing and binding under the lower-cased, underscored name
registerApi_NormalizedName(d, srv, reg, tls) ==
    LET v == validateApiDefinition(d)
        failed == [ret |-> "false", reg |-> reg, tools |-> tls]
    IN  IF ~v.ok \/ srv = Undef THEN failed
        ELSE IF ToolAlreadyRegistered(tls, NormalizeName(v.api.name)) THEN failed
        ELSE [ret |-> "true",
              reg |-> MapSet(reg, NormalizeName(v.api.name), v.api),
              tools |-> MapSet(tls, NormalizeName(v.api.name), ApiBinding(v.api))]

\* registerApi binding the tool over one that is bound already
registerApi_Overwrites(d, srv, reg, tls) ==
    IF ~validateApiDefinition(d).ok \/ srv = Undef
    THEN [ret |-> "false", reg |-> reg, tools |-> tls]
    ELSE [ret |-> "true",
          reg |-> MapSet(reg, validateApiDefinition(d).api.name,
                         validateApiDefinition(d).api),
          tools |-> MapSet(tls, validateApiDefinition(d).api.name,
                           ApiBinding(validateApiDefinition(d).api))]

\* registerApi(apiDef, server): what it returns and what it leaves behind.
\* Every statement is inside the try, so a throw anywhere gives `false`.
registerApi(d, srv, reg, tls) ==
    LET v == validateApiDefinition(d)
        failed == [ret |-> "false", reg |-> reg, tools |-> tls]
    IN  IF ~v.ok THEN failed
        ELSE IF srv = Undef THEN failed
        ELSE IF ToolAlreadyRegistered(tls, v.api.name) THEN failed
        ELSE [ret |-> "true",
              reg |-> MapSet(reg, v.api.name, v.api),
              tools |-> MapSet(tls, v.api.name, ApiBinding(v.api))]

\* getRegisteredApis(): the values of the registry (their order is not modelled)
getRegisteredApis(reg) == { reg[n] : n \in DOMAIN reg }

\* getApiByName(name): NullDef stands for null
getApiByName(reg, name) == IF name \in DOMAIN reg THEN reg[name] ELSE NullDef

\* unregisterApi deleting the registry's entry without tool.remove()
unregisterApi_KeepsTool(name, srv, reg, tls, getTool) ==
    IF name \notin DOMAIN reg \/ srv = Undef \/ ~getTool \/ name \notin DOMAIN tls
    THEN [ret |-> "false", reg |-> reg, tools |-> tls]
    ELSE [ret |-> "true", reg |-> MapDelete(reg, name), tools |-> tls]

\* unregisterApi(name, server)
unregisterApi(name, srv, reg, tls, getTool) ==
    LET failed == [ret |-> "false", reg |-> reg, tools |-> tls]
    IN  IF name \notin DOMAIN reg THEN failed
        ELSE IF srv = Undef \/ ~getTool THEN failed      \* TypeError, caught
        ELSE IF name \notin DOMAIN tls THEN failed       \* tool is undefined
        ELSE [ret |-> "true",
              reg |-> MapDelete(reg, name),
              tools |-> MapDelete(tls, name)]

(***************************************************************************)
(* parsers/markdown-parser.js and parseJsonAPI of tools/api-tools.js       *)
(***************************************************************************)
\* String.prototype.trim() for blanks
RECURSIVE Trim(_)
Trim(str) ==
    IF Len(str) > 0 /\ SubSeq(str, 1, 1) = " " THEN Trim(SubSeq(str, 2, Len(str)))
    ELSE IF Len(str) > 0 /\ SubSeq(str, Len(str), Len(str)) = " "
         THEN Trim(SubSeq(str, 1, Len(str) - 1))
         ELSE str

\* the tokens marked.lexer gives: a heading or a paragraph with its text, a
\* table with its rows (the header row is not among them), or another token
HeadingToken(text) == [type |-> "heading", text |-> text, rows |-> << >>]

ParagraphToken(text) == [type |-> "paragraph", text |-> text, rows |-> << >>]

TableToken(rows) == [type |-> "table", text |-> "", rows |-> rows]

OtherToken == [type |-> "space", text |-> "", rows |-> << >>]

\* a row of a table: the texts of its cells, Undef for a column the table
\* does not have
Row(c1, c2, c3, c4) == <<c1, c2, c3, c4>>

\* the section a heading opens; "title:*" stands for a title in Chinese
SectionOf(title) ==
    CASE title \in {"title:api-mingcheng", "api name"} -> "name"
      [] title \in {"title:miaoshu", "description"} -> "description"
      [] title \in {"url", "title:jiekou-dizhi"} -> "url"
      [] title \in {"title:fangfa", "method"} -> "method"
      [] title \in {"title:canshu", "parameters"} -> "parameters"
      [] title \in {"title:fanhui-lujing", "result path"} -> "resultPath"
      [] title \in {"title:biaotou", "headers"} -> "headers"
      [] OTHER -> "null"

\* the parser's state: the definition built so far, and whether it threw
ParseState(def, threw) == [def |-> def, threw |-> threw]

\* the loop over the rows of a parameters table, which starts at the second
\* row: a row with a name and no type or required cell throws
\* (undefined.toLowerCase()); the model keeps the parameter named "p"
RECURSIVE ParameterRows(_, _, _)
ParameterRows(rows, i, st) ==
    IF st.threw \/ i > Len(rows) THEN st
    ELSE LET row == rows[i]
             name == IF row[1] = Undef THEN Undef ELSE Trim(row[1])
         IN  IF Falsy(name) THEN ParameterRows(rows, i + 1, st)
             ELSE IF row[2] = Undef \/ row[3] = Undef
             THEN ParseState(st.def, TRUE)
             ELSE ParameterRows(rows, i + 1,
                    IF name # "p" THEN st
                    ELSE ParseState(
                           [st.def EXCEPT !.parameters =
                               [shape |-> "mapping",
                                type |-> IF ToLowerCase(Trim(row[2])) = ""
                                         THEN "string"
                                         ELSE ToLowerCase(Trim(row[2])),
                                required |->
                                    IF ToLowerCase(Trim(row[3])) \in {"true", "shi"}
                                    THEN "b:true" ELSE "b:false",
                                description |->
                                    IF row[4] = Undef THEN "" ELSE Trim(row[4])]],
                           FALSE))

\* the loop over the rows of a headers table, which starts at the second row
RECURSIVE HeaderRows(_, _, _)
HeaderRows(rows, i, st) ==
    IF st.threw \/ i > Len(rows) THEN st
    ELSE LET row == rows[i]
         IN  HeaderRows(rows, i + 1,
                IF /\ row[1] # Undef /\ row[2] # Undef
                   /\ Trim(row[1]) \in HeaderNames /\ Trim(row[2]) # ""
                THEN ParseState([st.def EXCEPT
                                    !.headers[Trim(row[1])] = Trim(row[2])],
                                FALSE)
                ELSE st)

\* the definition parseMarkdownAPI starts from: { parameters: {} }
EmptyDef == [NullDef EXCEPT !.nil = FALSE]

\* a paragraph sets the field of the section it lies in
SetText(def, section, text) ==
    CASE section = "name" -> [def EXCEPT !.name = text]
      [] section = "description" -> [def EXCEPT !.description = text]
      [] section = "url" -> [def EXCEPT !.url = text]
      [] section = "method" -> [def EXCEPT !.method = ToUpperCase(text)]
      [] section = "resultPath" -> [def EXCEPT !.resultPath = text]
      [] OTHER -> def

\* the body of the loop for a token that is no heading
ParseToken(token, section, st) ==
    IF token.type = "paragraph"
    THEN ParseState(SetText(st.def, section, Trim(token.text)), FALSE)
    ELSE IF token.type = "table" /\ section = "parameters"
    THEN ParameterRows(token.rows, 2, st)
    ELSE IF token.type = "table" /\ section = "headers"
    THEN HeaderRows(token.rows, 2, st)
    ELSE st

\* a heading of the headers section sets apiDef.headers = {}
OnHeading(section, st) ==
    IF section # "headers" THEN st
    ELSE ParseState([st.def EXCEPT !.headers = NoHeaders], FALSE)

\* the loop over the tokens: section is the section the last heading opened
RECURSIVE ParseTokens(_, _, _, _)
ParseTokens(tokens, i, section, st) ==
    IF st.threw \/ i > Len(tokens) THEN st
    ELSE IF tokens[i].type = "heading"
    THEN ParseTokens(tokens, i + 1, SectionOf(ToLowerCase(tokens[i].text)),
                     OnHeading(SectionOf(ToLowerCase(tokens[i].text)), st))
    ELSE ParseTokens(tokens, i + 1, section, ParseToken(tokens[i], section, st))

\* a Markdown content: a string with its tokens, or a value that is no
\* string, on which marked.lexer throws
MdContent(tokens) == [isString |-> TRUE, tokens |-> tokens]

NotAString == [isString |-> FALSE, tokens |-> << >>]

\* parseMarkdownAPI(content): the definition, or NullDef for null
Checked(st) ==
    IF st.threw THEN NullDef
    ELSE IF Falsy(st.def.name) \/ Falsy(st.def.url) THEN NullDef
    ELSE st.def

parseMarkdownAPI(content) ==
    IF ~content.isString THEN NullDef
    ELSE Checked(ParseTokens(content.tokens, 1, "null", ParseState(EmptyDef, FALSE)))

\* a JSON content: a string that JSON.parse decodes to value (or throws on),
\* or an object that is value already
JsonText(value) == [kind |-> "string", decodes |-> TRUE, value |-> value]

BadJsonText == [kind |-> "string", decodes |-> FALSE, value |-> NullDef]

JsonObject(value) == [kind |-> "object", decodes |-> TRUE, value |-> value]

\* parseJsonAPI taking an endpoint in place of a missing url
parseJsonAPI_UrlOrEndpoint(content) ==
    IF ~content.decodes THEN NullDef
    ELSE LET d == content.value
         IN  IF d.nil THEN NullDef
             ELSE IF Falsy(d.name) \/ (Falsy(d.url) /\ Falsy(d.endpoint))
             THEN NullDef
             ELSE [d EXCEPT !.method = IF Falsy(d.method) THEN "GET"
                                       ELSE ToUpperCase(d.method)]

\* the caller's argument once parseJsonAPI has returned: an object that is
\* accepted is the very object the function assigns to and returns
ArgumentAfter(content, returned) ==
    IF content.kind = "object" /\ ~returned.nil THEN JsonObject(returned)
    ELSE content

\* parseJsonAPI(content): the definition, or NullDef for null
parseJsonAPI(content) ==
    IF ~content.decodes THEN NullDef
    ELSE LET d == content.value
         IN  IF d.nil THEN NullDef
             ELSE IF Falsy(d.name) \/ Falsy(d.url) THEN NullDef
             ELSE [d EXCEPT !.method = IF Falsy(d.method) THEN "GET"
                                       ELSE ToUpperCase(d.method)]

(***************************************************************************)
(* The loaders of mcp-server.js                                            *)
(***************************************************************************)
\* a file: the extension of its path, whether readFileSync reads it, and
\* what its content is to JSON.parse and to marked.lexer
File(ext, readable, json, md) ==
    [ext |-> ext, readable |-> readable, json |-> json, md |-> md]

JsonFile(ext, value) == File(ext, TRUE, JsonText(value), MdContent(<< >>))

MdFile(ext, tokens) == File(ext, TRUE, BadJsonText, MdContent(tokens))

\* nothing was registered: the registry and the tools are as they were
Skipped(reg, tls) == [ret |-> Undef, reg |-> reg, tools |-> tls]

\* if (apiDef) { registerApi(apiDef, server); }
RegisterParsed(apiDef, srv, reg, tls) ==
    IF apiDef.nil THEN Skipped(reg, tls) ELSE registerApi(apiDef, srv, reg, tls)

\* loadApiFile(filePath, server): every failure is caught and logged, and
\* nothing is returned; ret keeps what registerApi returned, if it was called
loadApiFile(file, srv, reg, tls) ==
    IF ToLowerCase(file.ext) = ".json"
    THEN IF ~file.readable \/ ~file.json.decodes THEN Skipped(reg, tls)
         ELSE registerApi(file.json.value, srv, reg, tls)
    ELSE IF ToLowerCase(file.ext) \in {".md", ".markdown"}
    THEN IF ~file.readable THEN Skipped(reg, tls)
         ELSE RegisterParsed(parseMarkdownAPI(file.md), srv, reg, tls)
    ELSE Skipped(reg, tls)

\* glob(pattern, { cwd }): the files of the directory the pattern matches,
\* in discovery order
Matches(file, pattern) ==
    CASE pattern = "**/*.json" -> file.ext = ".json"
      [] pattern = "**/*.{md,markdown}" -> file.ext \in {".md", ".markdown"}
      [] pattern = "*.json" -> file.ext = ".json"
      [] pattern = "*" -> TRUE
      [] OTHER -> FALSE

RECURSIVE Glob(_, _)
Glob(files, pattern) ==
    IF files = << >> THEN << >>
    ELSE IF Matches(Head(files), pattern)
    THEN <<Head(files)>> \o Glob(Tail(files), pattern)
    ELSE Glob(Tail(files), pattern)

\* the two loops of loadApisFromDirectory over the files found; st is what
\* the files before the one at i left behind
RECURSIVE LoadFiles(_, _, _, _)
LoadFiles(files, i, srv, st) ==
    IF i > Len(files) THEN st
    ELSE LoadFiles(files, i + 1, srv, loadApiFile(files[i], srv, st.reg, st.tools))

JsonPattern(pattern) == IF Falsy(pattern) THEN "**/*.json" ELSE pattern

MdPattern(pattern) == IF Falsy(pattern) THEN "**/*.{md,markdown}" ELSE pattern

\* the files loadApisFromDirectory hands to loadApiFile, in the order of its
\* two loops
LoadOrder(files, pattern) ==
    Glob(files, JsonPattern(pattern)) \o Glob(files, MdPattern(pattern))

\* loadApisFromDirectory(directory, server, pattern): the JSON batch, then
\* the Markdown batch; the promise resolves to undefined
loadApisFromDirectory(files, srv, pattern, reg, tls) ==
    [LoadFiles(Glob(files, MdPattern(pattern)), 1, srv,
               LoadFiles(Glob(files, JsonPattern(pattern)), 1, srv,
                         Skipped(reg, tls)))
        EXCEPT !.ret = Undef]

\* a configuration file: its extension, whether it is read and decoded,
\* and what it decodes to; an entry of apiDirectories or apiFiles carries
\* whether fs.existsSync finds it
Config(ext, readable, decodes, apiDirectories, apiFiles, headers) ==
    [ext |-> ext, readable |-> readable, decodes |-> decodes,
     apiDirectories |-> apiDirectories, apiFiles |-> apiFiles,
     globalHeaders |-> headers]

Entry(exists, it) == [exists |-> exists, it |-> it]

RECURSIVE Existing(_)
Existing(entries) ==
    IF entries = << >> THEN << >>
    ELSE IF Head(entries).exists
    THEN <<Head(entries).it>> \o Existing(Tail(entries))
    ELSE Existing(Tail(entries))

\* what loadConfigFile leaves behind, and whether it logged a failure
ConfigResult(failed, st, headers, pending) ==
    [failed |-> failed, reg |-> st.reg, tools |-> st.tools, headers |-> headers,
     pending |-> pending]

\* loadConfigFile(configFilePath, server): the whole body is inside the try
\* and the catch only logs.  The calls of loadApisFromDirectory are not
\* awaited: they are left pending.  invokeTool says whether the server object
\* has the method invokeTool; without it the call throws a TypeError.
loadConfigFile(config, srv, reg, tls, gh, pending, invokeTool) ==
    IF \/ ToLowerCase(config.ext) \notin {".json", ".yaml", ".yml"}
       \/ ~config.readable \/ ~config.decodes
    THEN ConfigResult(TRUE, Skipped(reg, tls), gh, pending)
    ELSE ConfigResult(config.globalHeaders # NoHeaders /\ ~invokeTool,
                      LoadFiles(Existing(config.apiFiles), 1, srv,
                                Skipped(reg, tls)),
                      IF config.globalHeaders # NoHeaders /\ invokeTool
                      THEN Spread(gh, config.globalHeaders) ELSE gh,
                      pending \o Existing(config.apiDirectories))

(***************************************************************************)
(* JSON values and the result path                                         *)
(***************************************************************************)
\* the depth of the response bodies and the length of the result paths
MaxDepth == 2

MaxPath == 2

Keys == {"data", "items", "length"}

\* A JSON value is a chain {k1: {k2: ... leaf}}: keys is <<k1, k2, ...>> and
\* leaf the value at its end; "undefined" is JavaScript's undefined.
Leaves == {"null", "0", "5", "false", "true", "''", "'abc'", "[1,2,3]", "{}"}

JValue(keys, leaf) == [keys |-> keys, leaf |-> leaf]

UndefVal == JValue(<< >>, "undefined")

KeySeqs(n) == UNION { [1..k -> Keys] : k \in 0..n }

JValues == { JValue(ks, l) : ks \in KeySeqs(MaxDepth), l \in Leaves }

\* JavaScript truthiness of a value: objects and arrays are truthy
Truthy(v) ==
    v.keys # << >> \/ v.leaf \in {"3", "5", "true", "'abc'", "[1,2,3]", "{}"}

\* obj[key] for a truthy obj: an own key of an object, else the properties
\* a string or an array has among Keys (its length)
GetProp(v, key) ==
    IF v.keys # << >>
    THEN IF key = Head(v.keys) THEN JValue(Tail(v.keys), v.leaf) ELSE UndefVal
    ELSE IF key = "length" /\ v.leaf \in {"'abc'", "[1,2,3]"}
         THEN JValue(<< >>, "3")
         ELSE UndefVal

\* path.split('.').reduce((obj, key) =>
\*     (obj && obj[key] !== undefined) ? obj[key] : dflt, object)
RECURSIVE ReducePath(_, _, _)
ReducePath(obj, path, dflt) ==
    IF path = << >> THEN obj
    ELSE ReducePath(IF Truthy(obj) /\ GetProp(obj, Head(path)) # UndefVal
                    THEN GetProp(obj, Head(path))
                    ELSE dflt,
                    Tail(path), dflt)

\* String.prototype.split('.')
RECURSIVE SplitDots(_, _, _)
SplitDots(str, i, cur) ==
    IF i > Len(str) THEN <<cur>>
    ELSE IF SubSeq(str, i, i) = "."
         THEN <<cur>> \o SplitDots(str, i + 1, "")
         ELSE SplitDots(str, i + 1, cur \o SubSeq(str, i, i))

Split(str) == SplitDots(str, 1, "")

\* json-parser.js getValueByPath(object, path, defaultValue): a path that is
\* not a string makes path.split throw, and the catch returns the default
getValueByPath(object, path, dflt) ==
    IF path = Undef THEN dflt ELSE ReducePath(object, Split(path), dflt)

(***************************************************************************)
(* The outbound call                                                       *)
(***************************************************************************)
\* the caller's arguments: a mapping from ArgKeys; Undef marks a key it lacks
ArgKeys == {"id", "idx"}

NoArgs == [k \in ArgKeys |-> Undef]

\* a field of the request that was not set
Unset == [k \in ArgKeys |-> "<unset>"]

ArgInputs == { NoArgs, [NoArgs EXCEPT !["id"] = "42"] }

\* what axios does with a request: a 2xx response, another response, no
\* response before the timeout (ECONNABORTED), no response at all
Outcome(kind, status, body) == [kind |-> kind, status |-> status, body |-> body]

FailedOutcomes ==
    { Outcome("http", st, JValue(<< >>, "{}")) : st \in {"404", "500"} }
    \cup { Outcome("timeout", Undef, UndefVal), Outcome("network", Undef, UndefVal) }

\* an Error: its class, its status and data fields
ErrorValue(class, status, data) == [class |-> class, status |-> status, data |-> data]

NoError == ErrorValue("none", Undef, UndefVal)

DefaultTimeout == 30000

\* the handler registerApi binds: the request it builds
ToolRequestConfig(api, args) ==
    LET method == IF Falsy(api.method) THEN "GET" ELSE api.method
        query == ToUpperCase(method) \in {"GET", "DELETE"}
    IN  [method |-> method,
         url |-> api.url,
         headers |-> api.headers,
         timeout |-> IF api.timeout = 0 THEN DefaultTimeout ELSE api.timeout,
         params |-> IF query THEN args ELSE Unset,
         data |-> IF query THEN Unset ELSE args]

\* the handler registerApi binds: the request, and the value it returns or
\* the Error it throws
ToolHandler(api, args, outcome) ==
    LET cfg == ToolRequestConfig(api, args)
    IN  IF outcome.kind = "ok"
        THEN [request |-> cfg, threw |-> FALSE, error |-> NoError,
              value |-> IF Falsy(api.resultPath) THEN outcome.body
                        ELSE ReducePath(outcome.body, Split(api.resultPath),
                                        UndefVal)]
        ELSE [request |-> cfg, threw |-> TRUE,
              error |-> ErrorValue("Error", Undef, UndefVal),
              value |-> UndefVal]

(***************************************************************************)
(* tools/api-tools.js and utils/httpClient.js                              *)
(***************************************************************************)
WordChars ==
    {"a", "b", "c", "d", "e", "f", "g", "h", "i", "j", "k", "l", "m", "n", "o",
     "p", "q", "r", "s", "t", "u", "v", "w", "x", "y", "z", "0", "1", "2", "3",
     "4", "5", "6", "7", "8", "9", "_"}

StartsWith(str, pre) == Len(str) >= Len(pre) /\ SubSeq(str, 1, Len(pre)) = pre

\* str.replace(/\/+$/, '') and str.replace(/^\/+/, '')
RECURSIVE TrimTrailingSlashes(_)
TrimTrailingSlashes(str) ==
    IF Len(str) > 0 /\ SubSeq(str, Len(str), Len(str)) = "/"
    THEN TrimTrailingSlashes(SubSeq(str, 1, Len(str) - 1))
    ELSE str

RECURSIVE TrimLeadingSlashes(_)
TrimLeadingSlashes(str) ==
    IF Len(str) > 0 /\ SubSeq(str, 1, 1) = "/"
    THEN TrimLeadingSlashes(SubSeq(str, 2, Len(str)))
    ELSE str

\* encodeURIComponent on the characters the model's values use
RECURSIVE EncodeURIComponent(_)
EncodeURIComponent(str) ==
    IF Len(str) = 0 THEN ""
    ELSE LET c == SubSeq(str, 1, 1)
             e == CASE c = " " -> "%20"
                    [] c = "/" -> "%2F"
                    [] c = ":" -> "%3A"
                    [] OTHER -> c
         IN  e \o EncodeURIComponent(SubSeq(str, 2, Len(str)))

\* url.replace(new RegExp(`:${key}\\b`, 'g'), value): every ":key" that a
\* word character does not follow
RECURSIVE ReplaceToken(_, _, _, _)
ReplaceToken(url, key, value, i) ==
    IF i > Len(url) THEN ""
    ELSE LET j == i + Len(key)
             hit == /\ j <= Len(url)
                    /\ SubSeq(url, i, j) = ":" \o key
                    /\ (j = Len(url) \/ SubSeq(url, j + 1, j + 1) \notin WordChars)
         IN  IF hit THEN value \o ReplaceToken(url, key, value, j + 1)
             ELSE SubSeq(url, i, i) \o ReplaceToken(url, key, value, i + 1)

\* Object.keys(params), in insertion order
ArgKeyOrder == <<"id", "idx">>

RECURSIVE SubstituteParams(_, _, _)
SubstituteParams(url, args, i) ==
    IF i > Len(ArgKeyOrder) THEN url
    ELSE LET k == ArgKeyOrder[i]
         IN  SubstituteParams(
                 IF args[k] = Undef THEN url
                 ELSE ReplaceToken(url, k, EncodeURIComponent(args[k]), 1),
                 args, i + 1)

\* executeApiMethod: the URL of the request
BuildUrl(baseUrl, endpoint, args) ==
    LET joined ==
            IF ~Falsy(baseUrl) /\ ~StartsWith(endpoint, "http://")
                               /\ ~StartsWith(endpoint, "https://")
            THEN TrimTrailingSlashes(baseUrl) \o "/" \o TrimLeadingSlashes(endpoint)
            ELSE endpoint
    IN  SubstituteParams(joined, args, 1)

\* a definition of the multi-method shape, with one method
MethodDef(name, endpoint, method, headers) ==
    [name |-> name, endpoint |-> endpoint, method |-> method, headers |-> headers]

MultiDef(name, baseUrl, headers, m) ==
    [name |-> name, baseUrl |-> baseUrl, headers |-> headers, methods |-> <<m>>]

NoMultiDef ==
    MultiDef(Undef, Undef, NoHeaders, MethodDef(Undef, "", Undef, NoHeaders))

\* apiDefinition.methods.find(m => m.name === methodName): its index, or 0
FindMethod(api, methodName) ==
    IF \E i \in 1..Len(api.methods) : api.methods[i].name = methodName
    THEN CHOOSE i \in 1..Len(api.methods) :
             /\ api.methods[i].name = methodName
             /\ \A j \in 1..(i - 1) : api.methods[j].name # methodName
    ELSE 0

\* a request that was never built
NoRequest ==
    [method |-> Undef, url |-> Undef, headers |-> NoHeaders, timeout |-> 0,
     params |-> Unset, data |-> Unset]

\* executeApiMethod(apiDefinition, methodName, params): the request, and the
\* value returned or the Error thrown (every catch rethrows a plain Error)
executeApiMethod(api, methodName, args, outcome) ==
    LET i == FindMethod(api, methodName)
    IN  IF i = 0
        THEN [request |-> NoRequest, threw |-> TRUE, value |-> UndefVal,
              error |-> ErrorValue("Error", Undef, UndefVal)]
        ELSE LET m == api.methods[i]
                 cfg == [method |-> m.method,
                         url |-> BuildUrl(api.baseUrl, m.endpoint, args),
                         headers |->
                             Spread(Spread([NoHeaders EXCEPT !["Content-Type"] =
                                                "application/json"],
                                           api.headers),
                                    m.headers),
                         timeout |-> 0,
                         params |-> IF m.method = "GET" THEN args ELSE Unset,
                         data |-> IF m.method = "GET" THEN Unset ELSE args]
             IN  IF outcome.kind = "ok"
                 THEN [request |-> cfg, threw |-> FALSE, value |-> outcome.body,
                       error |-> NoError]
                 ELSE [request |-> cfg, threw |-> TRUE, value |-> UndefVal,
                       error |-> ErrorValue("Error", Undef, UndefVal)]

\* testApiConnection(url, method, headers, params, timeout): `start` is
\* declared inside the try block, so the catch block's `Date.now() - start`
\* throws a ReferenceError and the promise rejects
testApiConnection(url, method, headers, args, timeout, outcome) ==
    LET verb == ToUpperCase(method)
        query == verb \in {"GET", "DELETE"}
        cfg == [method |-> verb, url |-> url, headers |-> headers,
                timeout |-> timeout,
                params |-> IF query THEN args ELSE Unset,
                data |-> IF query THEN Unset ELSE args]
    IN  IF outcome.kind = "ok"
        THEN [request |-> cfg, threw |-> FALSE, value |-> outcome.body,
              error |-> NoError]
        ELSE [request |-> cfg, threw |-> TRUE, value |-> UndefVal,
              error |-> ErrorValue("ReferenceError", Undef, UndefVal)]

\* what the raw error carried as HttpError.data stands for
RawError == JValue(<< >>, "error")

\* HttpClient: the response interceptors. hasConfig is whether the axios
\* error carries the request's config.
HttpClientResponse(hasConfig, outcome) ==
    IF outcome.kind = "ok"
    THEN [threw |-> FALSE, value |-> outcome.body, error |-> NoError]
    ELSE [threw |-> TRUE, value |-> UndefVal,
          error |->
              IF ~hasConfig THEN ErrorValue("HttpError", "0", RawError)
              ELSE IF outcome.kind = "http"
                   THEN ErrorValue("HttpError", outcome.status, outcome.body)
              ELSE IF outcome.kind = "timeout"
                   THEN ErrorValue("HttpError", "408", JValue(<< >>, "null"))
              ELSE ErrorValue("HttpError", "0", RawError)]

\* api-tools.js registerApi(apiDefinition): returns nothing
toolsRegisterApi(reg, api) == MapSet(reg, api.name, api)

\* api-tools.js unregisterApi(apiName): Map.prototype.delete's result
toolsUnregisterApi(reg, name) ==
    [ret |-> IF name \in DOMAIN reg THEN "true" ELSE "false",
     reg |-> MapDelete(reg, name)]

\* api-tools.js getApi(apiName)
toolsGetApi(reg, name) == IF name \in DOMAIN reg THEN reg[name] ELSE NoMultiDef

\* the handler generateToolRegistrationFunction binds for a method: what
\* executeApiMethod throws becomes a result with isError set
GeneratedToolHandler(api, methodName, args, outcome) ==
    LET r == executeApiMethod(api, methodName, args, outcome)
    IN  [request |-> r.request, threw |-> FALSE, isError |-> r.threw,
         error |-> NoError, value |-> r.value]

\* a zod validator: the type it checks ("any" checks nothing), whether
\* .optional() was applied, and the value .default() was given
Validator(kind, optional, dflt) == [kind |-> kind, optional |-> optional, dflt |-> dflt]

\* typeof a JSON value, as the zod types tell them apart
TypeOf(v) ==
    CASE v.keys # << >> -> "object"
      [] v.leaf \in {"0", "5"} -> "number"
      [] v.leaf \in {"''", "'abc'"} -> "string"
      [] v.leaf \in {"false", "true"} -> "boolean"
      [] v.leaf = "[1,2,3]" -> "array"
      [] v.leaf = "{}" -> "object"
      [] OTHER -> v.leaf

\* validator.parse(x): an undefined input takes the default; undefined is
\* accepted by an optional validator and by z.any() only
ZodParse(v, x) ==
    IF x = UndefVal /\ v.dflt # UndefVal
    THEN [ok |-> v.kind = "any" \/ TypeOf(v.dflt) = v.kind, value |-> v.dflt]
    ELSE IF x = UndefVal
    THEN [ok |-> v.optional \/ v.kind = "any", value |-> UndefVal]
    ELSE [ok |-> v.kind = "any" \/ TypeOf(x) = v.kind, value |-> x]

\* registerApi: the validator of a parameter of the normalized definition
registerApiParamSchema(param) ==
    IF param.type \in {"string", "number", "boolean"}
    THEN Validator(param.type, param.required # "b:true", UndefVal)
    ELSE Validator("any", FALSE, UndefVal)

\* createMethodParameterSchema: the validator of a parameter of a method
createMethodParameterSchema(param, dflt) ==
    Validator(IF param.type \in ParamTypes THEN param.type ELSE "any",
              param.required # "b:true", dflt)

\* no file and no configuration file
NoFile == File(Undef, FALSE, BadJsonText, NotAString)

NoConfig == Config(Undef, FALSE, FALSE, << >>, << >>, NoHeaders)

(***************************************************************************)
(* The record of the last call                                             *)
(***************************************************************************)
NoCall ==
    [op |-> "none", def |-> NullDef, name |-> Undef, server |-> Undef,
     ret |-> Undef, isError |-> FALSE, headers |-> NoHeaders,
     api |-> NullDef, args |-> NoArgs, outcome |-> Outcome("none", Undef, UndefVal),
     request |-> NoRequest, threw |-> FALSE, error |-> NoError,
     value |-> UndefVal, mapi |-> NoMultiDef, methodName |-> Undef,
     object |-> UndefVal, path |-> Undef, dflt |-> UndefVal, hasConfig |-> FALSE]

\* the file, directory, configuration file or content a loader or a parser
\* was given, and what a parser returned
NoLoad ==
    [file |-> NoFile, files |-> << >>, pattern |-> Undef, config |-> NoConfig,
     content |-> BadJsonText, md |-> NotAString, parsed |-> NullDef,
     argument |-> BadJsonText, submitted |-> << >>]

(***************************************************************************)
(* The exported functions                                                  *)
(***************************************************************************)
RegisterApi ==
    \E d \in RawDefs, srv \in ServerArgs :
        LET r == registerApi(d, srv, apiRegistry, tools)
        IN  /\ apiRegistry' = r.reg
            /\ tools' = r.tools
            /\ last' = [NoCall EXCEPT !.op = "registerApi", !.def = d,
                                      !.server = srv, !.ret = r.ret]
            /\ UNCHANGED <<globalHeaders, sdkGetTool, toolsRegistry, pendingLoads>>
            /\ loaded' = NoLoad

UnregisterApi ==
    \E n \in NameInputs, srv \in ServerArgs :
        LET r == unregisterApi(n, srv, apiRegistry, tools, sdkGetTool)
        IN  /\ apiRegistry' = r.reg
            /\ tools' = r.tools
            /\ last' = [NoCall EXCEPT !.op = "unregisterApi", !.name = n,
                                      !.server = srv, !.ret = r.ret]
            /\ UNCHANGED <<globalHeaders, sdkGetTool, toolsRegistry, pendingLoads>>
            /\ loaded' = NoLoad

(***************************************************************************)
(* The built-in tools (registerBuiltinTools)                               *)
(***************************************************************************)
\* a built-in tool can be called while it is bound
Callable(t) == t \in DOMAIN tools /\ tools[t].builtin

\* arguments register_web_api's schema lets through: name and url are
\* strings, method is one of five verbs (GET when left out), a parameter's
\* type is one of the five types and its required a boolean (false when left out)
WebDef(n, k) ==
    IF k = 1
    THEN [NullDef EXCEPT !.nil = FALSE, !.name = n, !.url = "http://h/one",
                         !.method = "GET"]
    ELSE [NullDef EXCEPT !.nil = FALSE, !.name = n, !.url = "http://h/two",
                         !.method = "POST", !.description = "second",
                         !.parameters = [shape |-> "mapping", type |-> "number",
                                         required |-> "b:false",
                                         description |-> Undef],
                         !.headers = [NoHeaders EXCEPT !["A"] = "2"],
                         !.resultPath = "data.items"]

WebParams ==
    { WebDef(n, k) : n \in NameInputs \cup {""}, k \in {1, 2} }
    \cup { [WebDef("a", 1) EXCEPT !.url = ""] }

\* register_web_api: the success text is returned whatever registerApi returns
ToolRegisterWebApi ==
    /\ Callable("register_web_api")
    /\ \E params \in WebParams :
        LET apiDef == [params EXCEPT
                          !.headers = Spread(globalHeaders, params.headers)]
            r == registerApi(apiDef, "server", apiRegistry, tools)
        IN  /\ apiRegistry' = r.reg
            /\ tools' = r.tools
            /\ last' = [NoCall EXCEPT !.op = "register_web_api",
                                      !.def = params, !.server = "server",
                                      !.ret = r.ret, !.isError = FALSE]
            /\ UNCHANGED <<globalHeaders, sdkGetTool, toolsRegistry, pendingLoads>>
            /\ loaded' = NoLoad

\* the header mappings handed to set_default_headers
HeaderInputs == { [NoHeaders EXCEPT !["A"] = "1", !["B"] = "1"] }

\* set_default_headers: Object.assign(globalHeaders, params.headers)
ToolSetDefaultHeaders ==
    /\ Callable("set_default_headers")
    /\ \E H \in HeaderInputs :
        /\ globalHeaders' = Spread(globalHeaders, H)
        /\ last' = [NoCall EXCEPT !.op = "set_default_headers",
                                  !.server = "server", !.headers = H]
        /\ UNCHANGED <<apiRegistry, tools, sdkGetTool, toolsRegistry, pendingLoads>>
        /\ loaded' = NoLoad

\* unregister_api: isError exactly when unregisterApi returned false
ToolUnregisterApi ==
    /\ Callable("unregister_api")
    /\ \E n \in NameInputs :
        LET r == unregisterApi(n, "server", apiRegistry, tools, sdkGetTool)
        IN  /\ apiRegistry' = r.reg
            /\ tools' = r.tools
            /\ last' = [NoCall EXCEPT !.op = "unregister_api", !.name = n,
                                      !.server = "server", !.ret = r.ret,
                                      !.isError = (r.ret = "false")]
            /\ UNCHANGED <<globalHeaders, sdkGetTool, toolsRegistry, pendingLoads>>
            /\ loaded' = NoLoad

\* the files, directories and configuration files the model loads
GoodJson == JsonFile(".json", BaseDef("a", 1))

InvalidJson == JsonFile(".JSON", [BaseDef("A", 1) EXCEPT !.url = Undef])

UndecodableJson == File(".json", TRUE, BadJsonText, MdContent(<< >>))

Unreadable == File(".json", FALSE, BadJsonText, MdContent(<< >>))

GoodMd ==
    MdFile(".md", <<HeadingToken("API Name"), ParagraphToken("A "),
                    HeadingToken("URL"), ParagraphToken("http://h/one")>>)

MalformedMd ==
    MdFile(".md", <<HeadingToken("Weather API"), ParagraphToken("weather"),
                    HeadingToken("URL"), ParagraphToken("http://h/one")>>)

Unsupported == JsonFile(".txt", BaseDef("A", 1))

\* a definition under the name of a built-in tool
BuiltinNameJson == JsonFile(".json", BaseDef("unregister_api", 1))

\* a Markdown definition of the name GoodJson defines
SameNameMd ==
    MdFile(".md", <<HeadingToken("API Name"), ParagraphToken("a"),
                    HeadingToken("URL"), ParagraphToken("http://h/two")>>)

Files ==
    {GoodJson, InvalidJson, UndecodableJson, Unreadable, GoodMd, MalformedMd,
     Unsupported, BuiltinNameJson}

Directories ==
    { <<GoodJson, MalformedMd>>,
      <<UndecodableJson, MalformedMd, GoodMd, Unsupported>>,
      <<SameNameMd, GoodJson>> }

Patterns == {Undef, "*"}

ConfigHeaders == [NoHeaders EXCEPT !["B"] = "1"]

ConfigDirs == <<Entry(TRUE, <<GoodJson, MalformedMd>>)>>

ConfigFiles ==
    <<Entry(TRUE, GoodMd), Entry(FALSE, GoodJson), Entry(TRUE, Unsupported)>>

Configs ==
    { Config(".json", TRUE, TRUE, ConfigDirs, ConfigFiles, ConfigHeaders),
      Config(".txt", TRUE, TRUE, ConfigDirs, ConfigFiles, ConfigHeaders),
      Config(".yaml", TRUE, FALSE, << >>, << >>, NoHeaders),
      Config(".yml", TRUE, TRUE, << >>, <<Entry(TRUE, GoodJson)>>, NoHeaders) }

\* the directory loads left pending are bounded
MaxPending == 1

\* load_api_from_file: loadApiFile returns nothing and throws nothing, so the
\* success text is always returned
ToolLoadApiFromFile ==
    /\ Callable("load_api_from_file")
    /\ \E file \in Files :
        \E r \in {loadApiFile(file, "server", apiRegistry, tools)} :
            /\ apiRegistry' = r.reg
            /\ tools' = r.tools
            /\ last' = [NoCall EXCEPT !.op = "load_api_from_file",
                                      !.server = "server",
                                      !.ret = r.ret, !.isError = FALSE]
            /\ loaded' = [NoLoad EXCEPT !.file = file]
            /\ UNCHANGED <<globalHeaders, sdkGetTool, toolsRegistry, pendingLoads>>

\* loadApisFromDirectory(directory, server, pattern), awaited by its caller
LoadApisFromDirectory ==
    \E files \in Directories, pattern \in Patterns :
        \E r \in {loadApisFromDirectory(files, "server", pattern,
                                        apiRegistry, tools)} :
            /\ apiRegistry' = r.reg
            /\ tools' = r.tools
            /\ last' = [NoCall EXCEPT !.op = "loadApisFromDirectory",
                                      !.server = "server", !.ret = r.ret]
            /\ loaded' = [NoLoad EXCEPT !.files = files, !.pattern = pattern,
                                        !.submitted = LoadOrder(files, pattern)]
            /\ UNCHANGED <<globalHeaders, sdkGetTool, toolsRegistry, pendingLoads>>

\* load_apis_from_directory: awaits loadApisFromDirectory, then the success text
ToolLoadApisFromDirectory ==
    /\ Callable("load_apis_from_directory")
    /\ \E files \in Directories, pattern \in Patterns :
        \E r \in {loadApisFromDirectory(files, "server", pattern,
                                        apiRegistry, tools)} :
            /\ apiRegistry' = r.reg
            /\ tools' = r.tools
            /\ last' = [NoCall EXCEPT !.op = "load_apis_from_directory",
                                      !.server = "server", !.isError = FALSE]
            /\ loaded' = [NoLoad EXCEPT !.files = files, !.pattern = pattern,
                                        !.submitted = LoadOrder(files, pattern)]
            /\ UNCHANGED <<globalHeaders, sdkGetTool, toolsRegistry, pendingLoads>>

\* load_from_config: loadConfigFile throws nothing, so the success text is
\* always returned
ToolLoadFromConfig ==
    /\ Callable("load_from_config")
    /\ \E config \in Configs, invokeTool \in BOOLEAN :
        \E r \in {loadConfigFile(config, "server", apiRegistry, tools,
                                globalHeaders, pendingLoads, invokeTool)} :
            /\ Len(r.pending) <= MaxPending
            /\ apiRegistry' = r.reg
            /\ tools' = r.tools
            /\ globalHeaders' = r.headers
            /\ pendingLoads' = r.pending
            /\ last' = [NoCall EXCEPT !.op = "load_from_config",
                                      !.server = "server",
                                      !.threw = FALSE, !.isError = FALSE]
            /\ loaded' = [NoLoad EXCEPT !.config = config]
            /\ UNCHANGED <<sdkGetTool, toolsRegistry>>

\* a pending loadApisFromDirectory(dirPath, server) runs to its end
CompleteDirectoryLoad ==
    \E i \in 1 .. Len(pendingLoads) :
        \E r \in {loadApisFromDirectory(pendingLoads[i], "server", Undef,
                                        apiRegistry, tools)} :
            /\ apiRegistry' = r.reg
            /\ tools' = r.tools
            /\ pendingLoads' = SubSeq(pendingLoads, 1, i - 1)
                               \o SubSeq(pendingLoads, i + 1, Len(pendingLoads))
            /\ last' = [NoCall EXCEPT !.op = "directory loaded",
                                      !.server = "server"]
            /\ loaded' = [NoLoad EXCEPT !.files = pendingLoads[i],
                                        !.submitted = LoadOrder(pendingLoads[i], Undef)]
            /\ UNCHANGED <<globalHeaders, sdkGetTool, toolsRegistry>>

(***************************************************************************)
(* Calling a generated tool                                                *)
(***************************************************************************)
\* the responses the server model receives
Bodies == { JValue(<<"data", "items">>, "[1,2,3]"), JValue(<<"data">>, "'abc'") }

Outcomes == { Outcome("ok", "200", b) : b \in Bodies } \cup FailedOutcomes

InvokeTool ==
    \E n \in DOMAIN tools, args \in ArgInputs, outcome \in Outcomes :
        /\ ~tools[n].builtin
        /\ LET r == ToolHandler(tools[n].api, args, outcome)
           IN  last' = [NoCall EXCEPT !.op = "invoke", !.name = n,
                                      !.server = "server",
                                      !.api = tools[n].api, !.args = args,
                                      !.outcome = outcome,
                                      !.request = r.request, !.threw = r.threw,
                                      !.error = r.error, !.value = r.value]
        /\ UNCHANGED <<apiRegistry, tools, globalHeaders, sdkGetTool, toolsRegistry, pendingLoads>>
        /\ loaded' = NoLoad

(***************************************************************************)
(* The server                                                              *)
(***************************************************************************)
\* createServer(): the built-in tools are bound, the registry is empty
Init ==
    /\ apiRegistry = << >>
    /\ tools = [t \in BuiltinTools |-> BuiltinBinding]
    /\ globalHeaders = NoHeaders
    /\ sdkGetTool \in BOOLEAN
    /\ toolsRegistry = << >>
    /\ pendingLoads = << >>
    /\ last = NoCall
    /\ loaded = NoLoad

Next ==
    \/ RegisterApi
    \/ UnregisterApi
    \/ ToolRegisterWebApi
    \/ ToolSetDefaultHeaders
    \/ ToolUnregisterApi
    \/ InvokeTool

Spec == Init /\ [][Next]_vars

\* the server driven through its tools and its loaders
NextLoad ==
    \/ ToolRegisterWebApi
    \/ ToolSetDefaultHeaders
    \/ ToolUnregisterApi
    \/ ToolLoadApiFromFile
    \/ LoadApisFromDirectory
    \/ ToolLoadApisFromDirectory
    \/ ToolLoadFromConfig
    \/ CompleteDirectoryLoad
    \/ InvokeTool

SpecLoad == Init /\ [][NextLoad]_vars

(***************************************************************************)
(* The executor functions of tools/api-tools.js, tools/json-parser.js and  *)
(* utils/httpClient.js, applied to inputs drawn from bounded sets          *)
(***************************************************************************)
ExecHeaders(v) == [NoHeaders EXCEPT !["A"] = v]

ExecMethods ==
    { MethodDef("get", e, verb, h) :
        e \in {"/users/:id", "users/:idx", "http://h/x/:idx"},
        verb \in {"GET", "POST", "DELETE", "get"},
        h \in {NoHeaders, ExecHeaders("3")} }

ExecDefs ==
    { MultiDef("m", b, h, m) :
        b \in {Undef, "http://api//"},
        h \in {NoHeaders, [ExecHeaders("2") EXCEPT !["B"] = "1"]},
        m \in ExecMethods }

\* the definitions the api-tools registry is given
ExecRegDefs ==
    { MultiDef("m", Undef, NoHeaders, MethodDef("get", "/one", "GET", NoHeaders)),
      MultiDef("m", "http://api", NoHeaders,
               MethodDef("get", "/two", "POST", NoHeaders)) }

ExecArgs == ArgInputs \cup { [NoArgs EXCEPT !["idx"] = "a b/c"] }

ExecOutcomes ==
    { Outcome("ok", "200", JValue(<<"data">>, "5")) } \cup FailedOutcomes

\* Array.prototype.join('.')
RECURSIVE JoinDots(_)
JoinDots(ks) ==
    IF Len(ks) = 0 THEN ""
    ELSE IF Len(ks) = 1 THEN ks[1]
    ELSE ks[1] \o "." \o JoinDots(Tail(ks))

\* the result paths: up to MaxPath keys, an empty key, and none
ExecPaths ==
    { JoinDots(ks) : ks \in KeySeqs(MaxPath) } \cup {Undef, "data..items"}

\* the registered definitions whose tool is called: the validated first base
\* definition with a method and a result path
ExecFlatDef(method, path) ==
    [validateApiDefinition(BaseDef("a", 1)).api EXCEPT
        !.method = method, !.resultPath = path]

\* a call of the tool bound for api, waiting to be made
PendingTool(api, args, outcome) ==
    [NoCall EXCEPT !.op = "call tool", !.name = api.name, !.server = "server",
                   !.api = api, !.args = args, !.outcome = outcome]

\* the calls waiting to be made: the inputs of one executor function
PendingCalls(values, paths) ==
    { [NoCall EXCEPT !.op = "call executeApiMethod", !.mapi = api,
                     !.methodName = mn, !.args = args, !.outcome = outcome] :
        api \in ExecDefs, mn \in {"get", "put"}, args \in ExecArgs,
        outcome \in ExecOutcomes }
    \cup
    { [NoCall EXCEPT !.op = "call testApiConnection", !.name = method,
                     !.args = args, !.outcome = outcome] :
        method \in {"get", "post", "delete", "Put"}, args \in ArgInputs,
        outcome \in ExecOutcomes }
    \cup
    { [NoCall EXCEPT !.op = "call getValueByPath", !.object = object,
                     !.path = path, !.dflt = dflt] :
        object \in values \cup {UndefVal}, path \in paths,
        dflt \in {UndefVal, JValue(<< >>, "0")} }
    \cup
    { [NoCall EXCEPT !.op = "call generated tool", !.mapi = api,
                     !.methodName = mn, !.args = args, !.outcome = outcome] :
        api \in ExecRegDefs, mn \in {"get", "put"}, args \in ArgInputs,
        outcome \in ExecOutcomes }
    \cup
    { [NoCall EXCEPT !.op = "call HttpClient", !.hasConfig = TRUE,
                     !.outcome = outcome] :
        outcome \in ExecOutcomes }
    \cup
    { [NoCall EXCEPT !.op = "call HttpClient", !.hasConfig = FALSE,
                     !.outcome = Outcome("network", Undef, UndefVal)] }

\* the calls of a bound tool waiting to be made
PendingToolCalls(values, paths) ==
    { PendingTool(ExecFlatDef("GET", path), NoArgs, Outcome("ok", "200", body)) :
        path \in paths, body \in values }
    \cup
    { PendingTool(ExecFlatDef(method, Undef), args, outcome) :
        method \in {"GET", "POST", "PUT", "DELETE"}, args \in ArgInputs,
        outcome \in ExecOutcomes }
    \cup
    { PendingTool([ExecFlatDef(method, Undef) EXCEPT !.url = "http://h/users/:id"],
                  args, outcome) :
        method \in {"GET", "POST"}, args \in ArgInputs,
        outcome \in ExecOutcomes }

\* a value of each type
SampleOf(type) ==
    CASE type = "string" -> JValue(<< >>, "'abc'")
      [] type = "number" -> JValue(<< >>, "5")
      [] type = "boolean" -> JValue(<< >>, "true")
      [] type = "array" -> JValue(<< >>, "[1,2,3]")
      [] type = "object" -> JValue(<< >>, "{}")

\* the invocations of a tool with one declared parameter: the function that
\* built its schema, the parameter, its declared default, and the value the
\* caller gives for it, if any
PendingSchemaCalls ==
    UNION { { [NoCall EXCEPT !.op = "call schema", !.name = builder,
                             !.def = [EmptyDef EXCEPT !.parameters =
                                         [shape |-> "mapping", type |-> t,
                                          required |-> r, description |-> ""]],
                             !.object = x, !.dflt = d] :
                builder \in {"registerApi", "createMethodParameterSchema"},
                r \in {"b:true", "b:false"},
                x \in {UndefVal, SampleOf(t), JValue(<< >>, "null")},
                d \in {UndefVal, SampleOf(t)} } :
            t \in ParamTypes }

\* the registry of api-tools.js is driven from the state no call is pending in
RegistryOps == {"none", "tools.registerApi", "tools.unregisterApi"}

ExecRegisterApi ==
    /\ last.op \in RegistryOps
    /\ \E api \in ExecRegDefs :
        /\ toolsRegistry' = toolsRegisterApi(toolsRegistry, api)
        /\ last' = [NoCall EXCEPT !.op = "tools.registerApi", !.mapi = api]
        /\ UNCHANGED <<apiRegistry, tools, globalHeaders, sdkGetTool, pendingLoads, loaded>>

ExecUnregisterApi ==
    /\ last.op \in RegistryOps
    /\ \E n \in {"m", "n"} :
        LET r == toolsUnregisterApi(toolsRegistry, n)
        IN  /\ toolsRegistry' = r.reg
            /\ last' = [NoCall EXCEPT !.op = "tools.unregisterApi",
                                      !.name = n, !.ret = r.ret]
            /\ UNCHANGED <<apiRegistry, tools, globalHeaders, sdkGetTool, pendingLoads, loaded>>

ExecExecuteApiMethod ==
    /\ last.op = "call executeApiMethod"
    /\ LET r == executeApiMethod(last.mapi, last.methodName, last.args,
                                 last.outcome)
       IN  last' = [last EXCEPT !.op = "executeApiMethod",
                                !.request = r.request, !.threw = r.threw,
                                !.error = r.error, !.value = r.value]
    /\ UNCHANGED <<apiRegistry, tools, globalHeaders, sdkGetTool, toolsRegistry, pendingLoads, loaded>>

ExecTestApiConnection ==
    /\ last.op = "call testApiConnection"
    /\ LET r == testApiConnection("http://h/one", last.name, NoHeaders,
                                  last.args, 10000, last.outcome)
       IN  last' = [last EXCEPT !.op = "testApiConnection",
                                !.request = r.request, !.threw = r.threw,
                                !.error = r.error, !.value = r.value]
    /\ UNCHANGED <<apiRegistry, tools, globalHeaders, sdkGetTool, toolsRegistry, pendingLoads, loaded>>

ExecGetValueByPath ==
    /\ last.op = "call getValueByPath"
    /\ last' = [last EXCEPT !.op = "getValueByPath",
                            !.value = getValueByPath(last.object, last.path,
                                                     last.dflt)]
    /\ UNCHANGED <<apiRegistry, tools, globalHeaders, sdkGetTool, toolsRegistry, pendingLoads, loaded>>

ExecToolHandler ==
    /\ last.op = "call tool"
    /\ last.name \in DOMAIN tools
    /\ ~tools[last.name].builtin
    /\ LET r == ToolHandler(tools[last.name].api, last.args, last.outcome)
       IN  last' = [last EXCEPT !.op = "invoke",
                                !.request = r.request, !.threw = r.threw,
                                !.error = r.error, !.value = r.value]
    /\ UNCHANGED <<apiRegistry, tools, globalHeaders, sdkGetTool, toolsRegistry, pendingLoads, loaded>>

ExecGeneratedTool ==
    /\ last.op = "call generated tool"
    /\ LET r == GeneratedToolHandler(last.mapi, last.methodName, last.args,
                                     last.outcome)
       IN  last' = [last EXCEPT !.op = "generated tool",
                                !.request = r.request, !.threw = r.threw,
                                !.isError = r.isError, !.error = r.error,
                                !.value = r.value]
    /\ UNCHANGED <<apiRegistry, tools, globalHeaders, sdkGetTool, toolsRegistry, pendingLoads, loaded>>

\* an invocation of a bound tool: the SDK parses the arguments with the
\* schema the tool was bound with, and calls the handler, which issues the
\* request, only when they are accepted
ExecBoundSchema ==
    /\ last.op = "call schema"
    /\ \E r \in {ZodParse(IF last.name = "registerApi"
                           THEN registerApiParamSchema(last.def.parameters)
                           ELSE createMethodParameterSchema(last.def.parameters,
                                                            last.dflt),
                           last.object)} :
           last' = [last EXCEPT !.op = "schema", !.threw = ~r.ok,
                                !.value = r.value,
                                !.request =
                                    IF r.ok
                                    THEN [NoRequest EXCEPT !.method = "GET",
                                                           !.url = "http://h/one"]
                                    ELSE NoRequest]
    /\ UNCHANGED <<apiRegistry, tools, globalHeaders, sdkGetTool, toolsRegistry, pendingLoads, loaded>>

ExecHttpClient ==
    /\ last.op = "call HttpClient"
    /\ LET r == HttpClientResponse(last.hasConfig, last.outcome)
       IN  last' = [last EXCEPT !.op = "HttpClient", !.threw = r.threw,
                                !.error = r.error, !.value = r.value]
    /\ UNCHANGED <<apiRegistry, tools, globalHeaders, sdkGetTool, toolsRegistry, pendingLoads, loaded>>

\* the server after createServer(), or after registerApi(api, server) on it
\* when a call of the tool of api is pending
InitExec ==
    /\ globalHeaders = NoHeaders
    /\ sdkGetTool = FALSE
    /\ toolsRegistry = << >>
    /\ pendingLoads = << >>
    /\ loaded = NoLoad
    /\ last \in {NoCall} \cup PendingCalls(JValues, ExecPaths)
                \cup PendingToolCalls(JValues, ExecPaths)
                \cup PendingSchemaCalls
    /\ LET r == IF last.op = "call tool"
                THEN registerApi(last.api, "server", << >>,
                                 [t \in BuiltinTools |-> BuiltinBinding])
                ELSE [ret |-> Undef, reg |-> << >>,
                      tools |-> [t \in BuiltinTools |-> BuiltinBinding]]
       IN  /\ apiRegistry = r.reg
           /\ tools = r.tools

NextExec ==
    \/ ExecRegisterApi
    \/ ExecUnregisterApi
    \/ ExecExecuteApiMethod
    \/ ExecTestApiConnection
    \/ ExecGetValueByPath
    \/ ExecToolHandler
    \/ ExecGeneratedTool
    \/ ExecBoundSchema
    \/ ExecHttpClient

SpecExec == InitExec /\ [][NextExec]_vars

(***************************************************************************)
(* The validator and the parsers, applied to inputs drawn from bounded     *)
(* sets                                                                    *)
(***************************************************************************)
\* the definitions handed to validateApiDefinition
ValNames == {Undef, "", "a"}

ValUrls == {<<"http://h/one", Undef>>, <<Undef, "/e">>, <<"", "/e">>,
            <<Undef, Undef>>, <<"http://h/one", "/e">>}

ValMethods == {Undef, "", "get", "Put", "trace", "OPTIONS"}

ValTypes == {Undef, "", "Number", "STRING", "Date", "array"}

ValRequired ==
    {Undef, "b:true", "b:false", "s:true", "s:TRUE", "s:shi", "s:yes", "s:",
     "s:1", "n:0", "n:1", "o:{}", "null"}

ValParams ==
    { NoParam, [NoParam EXCEPT !.shape = "scalar"] }
    \cup { [shape |-> "mapping", type |-> t, required |-> r, description |-> Undef] :
             t \in ValTypes, r \in ValRequired }

ValDefs ==
    {NullDef}
    \cup { [NullDef EXCEPT !.nil = FALSE, !.name = n, !.url = u[1],
                           !.endpoint = u[2], !.method = m, !.parameters = p] :
             n \in ValNames, u \in ValUrls, m \in ValMethods, p \in ValParams }

\* the contents handed to parseJsonAPI: a text or an object
JsonDefs ==
    {NullDef}
    \cup { [NullDef EXCEPT !.nil = FALSE, !.name = n, !.url = u[1],
                           !.endpoint = u[2], !.method = m] :
             n \in ValNames, u \in ValUrls, m \in {Undef, "post"} }

JsonContents ==
    {BadJsonText} \cup { JsonText(d) : d \in JsonDefs }
    \cup { JsonObject(d) : d \in JsonDefs }

\* the contents handed to parseMarkdownAPI: up to MaxTokens tokens
MaxTokens == 4

OneColumn == <<Row("q", Undef, Undef, Undef), Row("p", Undef, Undef, Undef)>>

FourColumns == <<Row("q", "string", "true", ""), Row(" p", "Number", "TRUE", "d")>>

TokenInputs ==
    { HeadingToken("API Name"), HeadingToken("URL"), HeadingToken("Parameters"),
      HeadingToken("Weather API"), ParagraphToken(" http://h/one "),
      ParagraphToken(" "), TableToken(OneColumn), TableToken(FourColumns) }

\* the contents of up to n tokens, and a value that is no string
MdContents(n) ==
    {NotAString}
    \cup { MdContent(t) : t \in UNION { [1 .. k -> TokenInputs] : k \in 0 .. n } }

\* a complete Markdown definition
FullMd ==
    MdContent(<<HeadingToken("API Name"), ParagraphToken("A "),
                HeadingToken("Method"), ParagraphToken("post"),
                HeadingToken("URL"), ParagraphToken("http://h/one"),
                HeadingToken("Parameters"), TableToken(FourColumns),
                HeadingToken("Headers"),
                TableToken(<<Row("A", "0", Undef, Undef),
                             Row("A ", " 2", Undef, Undef)>>)>>)

\* a definition whose tables have one data row each
OneRowMd ==
    MdContent(<<HeadingToken("API Name"), ParagraphToken("A"),
                HeadingToken("URL"), ParagraphToken("http://h/one"),
                HeadingToken("Parameters"),
                TableToken(<<Row("p", "number", "true", "d")>>),
                HeadingToken("Headers"),
                TableToken(<<Row("A", "1", Undef, Undef)>>)>>)

\* the definition the README gives as its example of the Markdown format:
\* a level-1 heading, the description under it, the sections URL, method
\* ("title:fangfa"), parameters ("title:canshu", a list), request headers
\* ("title:qingqiutou", a list) and result path ("title:jieguo-lujing")
ReadmeMd ==
    MdContent(<<HeadingToken("Weather API"), ParagraphToken("weather"),
                HeadingToken("URL"), ParagraphToken("http://h/one"),
                HeadingToken("title:fangfa"), ParagraphToken("GET"),
                HeadingToken("title:canshu"), OtherToken,
                HeadingToken("title:qingqiutou"), OtherToken,
                HeadingToken("title:jieguo-lujing"), ParagraphToken("data")>>)

\* the calls to make: the call and what it is given
PendingValidations ==
    { [NoCall EXCEPT !.op = "call validateApiDefinition", !.def = d] : d \in ValDefs }

PendingJsonParses ==
    { [NoLoad EXCEPT !.content = c, !.argument = c] : c \in JsonContents }

PendingMdParses(n) ==
    { [NoLoad EXCEPT !.md = c] : c \in MdContents(n) \cup {FullMd, OneRowMd, ReadmeMd} }

\* validateApiDefinition(apiDef): it returns the definition or throws
ExecValidateApiDefinition ==
    /\ last.op = "call validateApiDefinition"
    /\ LET v == validateApiDefinition(last.def)
       IN  last' = [last EXCEPT !.op = "validateApiDefinition",
                                !.threw = ~v.ok, !.api = v.api]
    /\ UNCHANGED <<apiRegistry, tools, globalHeaders, sdkGetTool, toolsRegistry, pendingLoads, loaded>>

\* validateApiDefinition applied to a definition it returned
ExecValidateAgain ==
    /\ last.op = "validateApiDefinition" /\ ~last.threw
    /\ LET v == validateApiDefinition(last.api)
       IN  last' = [last EXCEPT !.op = "validateApiDefinition again",
                                !.def = last.api, !.threw = ~v.ok, !.api = v.api]
    /\ UNCHANGED <<apiRegistry, tools, globalHeaders, sdkGetTool, toolsRegistry, pendingLoads, loaded>>

\* parseJsonAPI(content): every throw is caught inside it
ExecParseJsonAPI ==
    /\ last.op = "call parseJsonAPI"
    /\ last' = [last EXCEPT !.op = "parseJsonAPI", !.threw = FALSE]
    /\ loaded' = [loaded EXCEPT
                      !.parsed = parseJsonAPI(loaded.content),
                      !.argument = ArgumentAfter(loaded.content,
                                                 parseJsonAPI(loaded.content))]
    /\ UNCHANGED <<apiRegistry, tools, globalHeaders, sdkGetTool, toolsRegistry, pendingLoads>>

\* parseMarkdownAPI(content): every throw is caught inside it
ExecParseMarkdownAPI ==
    /\ last.op = "call parseMarkdownAPI"
    /\ last' = [last EXCEPT !.op = "parseMarkdownAPI", !.threw = FALSE]
    /\ loaded' = [loaded EXCEPT !.parsed = parseMarkdownAPI(loaded.md)]
    /\ UNCHANGED <<apiRegistry, tools, globalHeaders, sdkGetTool, toolsRegistry, pendingLoads>>

InitParse ==
    /\ apiRegistry = << >>
    /\ tools = [t \in BuiltinTools |-> BuiltinBinding]
    /\ globalHeaders = NoHeaders
    /\ sdkGetTool = FALSE
    /\ toolsRegistry = << >>
    /\ pendingLoads = << >>
    /\ \/ last \in PendingValidations /\ loaded = NoLoad
       \/ /\ loaded \in PendingJsonParses
          /\ last = [NoCall EXCEPT !.op = "call parseJsonAPI"]
       \/ /\ loaded \in PendingMdParses(MaxTokens)
          /\ last = [NoCall EXCEPT !.op = "call parseMarkdownAPI"]

NextParse ==
    \/ ExecValidateApiDefinition
    \/ ExecValidateAgain
    \/ ExecParseJsonAPI
    \/ ExecParseMarkdownAPI

SpecParse == InitParse /\ [][NextParse]_vars

(***************************************************************************)
(* Properties of the registry (C1 .. C5)                                   *)
(***************************************************************************)
\* a flat definition with a non-empty name and url, a valid or absent method
\* and valid parameter types
ValidFlat(d) ==
    /\ ~d.nil
    /\ ~Falsy(d.name)
    /\ ~Falsy(d.url)
    /\ Falsy(d.method) \/ ToUpperCase(d.method) \in HttpMethods
    /\ \/ d.parameters.shape = "absent"
       \/ /\ d.parameters.shape = "mapping"
          /\ \/ Falsy(d.parameters.type)
             \/ ToLowerCase(d.parameters.type) \in ParamTypes

\* a definition normalization rejects: absent, without a name, without url
\* and endpoint, with an unsupported method, an unsupported parameter type
\* or a parameter spec that is no mapping
Rejected(d) ==
    \/ d.nil
    \/ Falsy(d.name)
    \/ Falsy(d.url) /\ Falsy(d.endpoint)
    \/ ~Falsy(d.method) /\ ToUpperCase(d.method) \notin HttpMethods
    \/ d.parameters.shape = "scalar"
    \/ /\ d.parameters.shape = "mapping"
       /\ ~Falsy(d.parameters.type)
       /\ ToLowerCase(d.parameters.type) \notin ParamTypes

\* the steps that call registerApi and unregisterApi
RegisterOps == {"registerApi", "register_web_api"}

UnregisterOps == {"unregisterApi", "unregister_api"}

\* C1: registerApi returns true for every valid flat definition, and the
\* definition is then what getApiByName returns and a member of
\* getRegisteredApis. The program returns false when the name is already bound
\* on the server.
C1_ValidRegisterReturnsTrue ==
    (last.op = "registerApi" /\ last.server # Undef /\ ValidFlat(last.def))
        => /\ last.ret = "true"
           /\ getApiByName(apiRegistry, last.def.name).url = last.def.url
           /\ getApiByName(apiRegistry, last.def.name)
                  \in getRegisteredApis(apiRegistry)

\* C2: registerApi called with a definition normalization rejects returns
\* false (it raises nothing) and leaves the registry and the tools bound on
\* the server as they were.
C2_RejectedRegisterChangesNothing ==
    [][(last'.op \in RegisterOps /\ Rejected(last'.def))
           => /\ last'.ret = "false"
              /\ apiRegistry' = apiRegistry
              /\ tools' = tools]_vars

\* C2 witness: a rejected definition was handed to registerApi while the
\* registry held an entry
C2_Witness ==
    /\ last.op = "registerApi"
    /\ Rejected(last.def)
    /\ last.ret = "false"
    /\ apiRegistry # << >>

\* C3: unregisterApi on a registered name returns true and getApiByName then
\* returns null; on a name that is not registered it returns false and
\* changes nothing. The program returns false for a registered name when
\* server.getTool is no function or the server argument is left out.
C3_UnregisterPresentReturnsTrue ==
    [][last'.op = "unregisterApi"
           => IF last'.name \in DOMAIN apiRegistry
              THEN /\ last'.ret = "true"
                   /\ getApiByName(apiRegistry', last'.name) = NullDef
              ELSE /\ last'.ret = "false"
                   /\ apiRegistry' = apiRegistry
                   /\ tools' = tools]_vars

\* C4: registering a valid definition under a registered name returns true
\* and the registry then holds the new definition under that name. The
\* program returns false and keeps the old definition: server.tool throws on
\* a name that is bound.
C4_ReRegisterOverwrites ==
    [][(/\ last'.op = "registerApi"
        /\ last'.server # Undef
        /\ ValidFlat(last'.def)
        /\ last'.def.name \in DOMAIN apiRegistry)
           => /\ last'.ret = "true"
              /\ getApiByName(apiRegistry', last'.def.name).url = last'.def.url
              /\ tools'[last'.def.name].api.url = last'.def.url]_vars

\* C5: on one server a generated tool is bound exactly when its name is a key
\* of the registry, and once unregisterApi has returned true the tool of that
\* name is not bound.
C5_ToolBoundIffRegistered ==
    /\ \A n \in DOMAIN tools \cup DOMAIN apiRegistry :
           (n \in DOMAIN tools /\ ~tools[n].builtin) <=> n \in DOMAIN apiRegistry
    /\ (last.op \in UnregisterOps /\ last.ret = "true")
           => last.name \notin DOMAIN tools

\* C5 witness: unregisterApi returned true for one name while another name
\* stayed registered and bound
C5_Witness ==
    /\ last.op = "unregisterApi"
    /\ last.ret = "true"
    /\ last.name \notin DOMAIN tools
    /\ \E n \in DOMAIN apiRegistry : n \in DOMAIN tools /\ ~tools[n].builtin

(***************************************************************************)
(* Properties of the outbound call (C6 .. C10)                             *)
(***************************************************************************)
\* C6: every header of an outbound call carries the API's value when the
\* registered definition has one and the global scope's value otherwise
\* (flat definitions have no method scope). The program's handler sends the
\* registered definition's headers alone.
C6_HeaderPrecedence ==
    last.op = "invoke"
        => \A h \in HeaderNames :
               last.request.headers[h] =
                   IF last.api.headers[h] # Undef THEN last.api.headers[h]
                   ELSE globalHeaders[h]

\* C7: once set_default_headers has set a header, every later call of a
\* registered tool sends it unless the definition overrides it, whenever and
\* however the tool was registered. The program copies the global headers
\* into a definition only inside register_web_api, when it registers.
C7_GlobalHeadersAtCallTime ==
    [][last'.op = "invoke"
           => \A h \in HeaderNames :
                  (globalHeaders[h] # Undef /\ tools[last'.name].api.headers[h] = Undef)
                      => last'.request.headers[h] = globalHeaders[h]]_vars

\* the calls that issue a request
RequestOps == {"invoke", "executeApiMethod", "testApiConnection"}

\* C8: a request whose verb is GET or DELETE carries the caller's arguments
\* as query parameters and no body, and a request of another verb carries
\* them as the body and no query parameters. executeApiMethod puts the
\* arguments of a DELETE in the body.
C8_PlacementByVerb ==
    (last.op \in RequestOps /\ last.request # NoRequest)
        => IF ToUpperCase(last.request.method) \in {"GET", "DELETE"}
           THEN last.request.params = last.args /\ last.request.data = Unset
           ELSE last.request.data = last.args /\ last.request.params = Unset

\* a keyed container: an object (arrays are left to the program's reading)
KeyedContainer(v) == v.keys # << >> \/ v.leaf \in {"{}", "[1,2,3]"}

\* the walk along a result path: undefined as soon as a value is missing or
\* is no keyed container
RECURSIVE Walk(_, _)
Walk(v, path) ==
    IF path = << >> THEN v
    ELSE IF KeyedContainer(v) /\ GetProp(v, Head(path)) # UndefVal
         THEN Walk(GetProp(v, Head(path)), Tail(path))
         ELSE UndefVal

\* C9: a successful call returns the walk of the response body along the
\* result path, and the whole body when no result path is set. The program's
\* reduce reads a property of a string it meets on the way (its length).
C9_ResultPathWalk ==
    /\ (last.op = "invoke" /\ last.outcome.kind = "ok")
           => last.value = IF Falsy(last.api.resultPath) THEN last.outcome.body
                           ELSE Walk(last.outcome.body, Split(last.api.resultPath))
    /\ (last.op = "getValueByPath" /\ last.path # Undef /\ last.dflt = UndefVal)
           => last.value = Walk(last.object, Split(last.path))

\* the calls that can fail on the way out
OutboundOps == {"invoke", "executeApiMethod", "HttpClient"}

\* C10: a failed outbound call raises a typed error whose status is the
\* upstream status when a response came, 408 on a timeout and 0 otherwise,
\* and that carries the upstream body when a response came. The program's
\* tool handler and executeApiMethod raise a plain Error without a status.
C10_TypedError ==
    (last.op \in OutboundOps /\ last.outcome.kind \in {"http", "timeout", "network"})
        => /\ last.threw
           /\ last.error.status =
                  CASE last.outcome.kind = "http" -> last.outcome.status
                    [] last.outcome.kind = "timeout" -> "408"
                    [] OTHER -> "0"
           /\ last.outcome.kind = "http" => last.error.data = last.outcome.body

(***************************************************************************)
(* Properties of the tools' results and of the loaders (C11 .. C16)        *)
(***************************************************************************)
\* the calls of a tool bound for an API
ApiToolOps == {"invoke", "generated tool"}

\* C11: a call of a generated tool whose request fails returns a result
\* with the error flag set, and the handler does not throw. The handler
\* registerApi binds rethrows the failure as an Error.
C11_FailureIsStructuredResult ==
    (last.op \in ApiToolOps /\ last.outcome.kind \in {"http", "timeout", "network"})
        => ~last.threw /\ last.isError

\* C12: register_web_api and load_api_from_file answer with the success text
\* only when the definition was added to the registry; every failure (an
\* invalid definition, an unreadable or undecodable file, an unsupported
\* extension, a parser returning null) is answered with a failure indicator
FileTools == {"register_web_api", "load_api_from_file"}

C12_SuccessOnlyWhenAdded ==
    (last.op \in FileTools /\ ~last.isError) => last.ret = "true"

\* C13: loadApisFromDirectory returns the number of definitions the call
\* registered (one good .json file and one malformed .md file give 1)
C13_ReturnsRegisteredCount ==
    [][last'.op = "loadApisFromDirectory"
          => last'.ret = ToString(Cardinality(DOMAIN apiRegistry'
                                              \ DOMAIN apiRegistry))]_vars

\* the extensions loadConfigFile reads
ConfigExtensions == {".json", ".yaml", ".yml"}

\* C14: a configuration file with an unrecognized extension, or one that
\* cannot be decoded, makes load_from_config answer with a failure
C14_BadConfigFails ==
    (/\ last.op = "load_from_config"
     /\ \/ ToLowerCase(loaded.config.ext) \notin ConfigExtensions
        \/ ~loaded.config.decodes)
        => last.isError

\* C15: once load_from_config has loaded a configuration file that has
\* globalHeaders H, the global headers contain H
C15_ConfigHeadersMerged ==
    (/\ last.op = "load_from_config"
     /\ ToLowerCase(loaded.config.ext) \in ConfigExtensions
     /\ loaded.config.readable /\ loaded.config.decodes)
        => \A h \in HeaderNames :
               loaded.config.globalHeaders[h] # Undef
                   => globalHeaders[h] = loaded.config.globalHeaders[h]

\* C16: a flat definition registered with name N is stored and bound under
\* N lower-cased with every run of blanks replaced by an underscore
C16_StoredUnderNormalizedName ==
    (last.op = "registerApi" /\ last.ret = "true")
        => /\ NormalizeName(last.def.name) \in DOMAIN apiRegistry
           /\ apiRegistry[NormalizeName(last.def.name)].name = last.def.name
           /\ NormalizeName(last.def.name) \in DOMAIN tools

\* C16, amended: a flat definition registered with name N is stored and
\* bound under N as it was given, so every entry of the registry sits under
\* its own name and names that differ in letter case make separate entries
C16_StoredUnderGivenName ==
    /\ \A k \in DOMAIN apiRegistry : apiRegistry[k].name = k
    /\ (last.op = "registerApi" /\ last.ret = "true")
           => /\ last.def.name \in DOMAIN apiRegistry
              /\ apiRegistry[last.def.name] = validateApiDefinition(last.def).api
              /\ tools[last.def.name] = ApiBinding(apiRegistry[last.def.name])

C16_Witness ==
    /\ last.op = "registerApi" /\ last.ret = "true" /\ last.def.name = "A"
    /\ {"a", "A"} \subseteq DOMAIN apiRegistry
    /\ apiRegistry["a"].name = "a"

(***************************************************************************)
(* Properties of the validator and of the parsers (C17 .. C20)             *)
(***************************************************************************)
ValidateOps == {"validateApiDefinition", "validateApiDefinition again"}

\* what the claims ask of the method and of the parameter of a definition
MethodAccepted(d) ==
    Falsy(d.method)
    \/ d.method \in {"GET", "get", "Put", "PUT", "post", "POST", "delete",
                     "DELETE", "PATCH", "HEAD", "OPTIONS"}

ParamAccepted(d) ==
    \/ d.parameters.shape = "absent"
    \/ /\ d.parameters.shape = "mapping"
       /\ \/ Falsy(d.parameters.type)
          \/ d.parameters.type \in ParamTypes \cup {"Number", "STRING"}

\* the method and the type of the parameter are in their normal form
NormalForm(d, api) ==
    /\ api.method \in HttpMethods
    /\ Falsy(d.method) => api.method = "GET"
    /\ d.parameters.shape = "mapping"
           => /\ api.parameters.type \in ParamTypes
              /\ Falsy(d.parameters.type) => api.parameters.type = "string"

C18_NormalizeIdempotent ==
    last.op = "validateApiDefinition again" => ~last.threw /\ last.api = last.def

C18_Witness ==
    /\ last.op = "validateApiDefinition again" /\ ~last.threw
    /\ last.def.method = "PUT"
    /\ last.def.parameters.type = "number"
    /\ last.def.parameters.required = "b:true"

\* the parameter of a definition validateApiDefinition accepted
Normalized ==
    /\ last.op = "validateApiDefinition" /\ ~last.threw
    /\ last.def.parameters.shape = "mapping"

\* C19: after validateApiDefinition the required of a parameter is a
\* boolean: true for the boolean true and for the strings "true" and U+662F
\* in any letter case, false for every other value and when absent
C19_RequiredFromBooleanOrString ==
    Normalized
        => last.api.parameters.required =
               IF last.def.parameters.required
                      \in {"b:true", "s:true", "s:TRUE", "s:True", "s:shi"}
               THEN "b:true" ELSE "b:false"

\* C19, amended: a value that is not a string is coerced, so a number
\* other than 0 and an object give true as well; 0, null, false, every
\* other string and an absent required give false
C19_RequiredCoerced ==
    Normalized
        => /\ last.api.parameters.required \in {"b:true", "b:false"}
           /\ last.api.parameters.required = "b:true"
                  <=> last.def.parameters.required
                          \in {"b:true", "s:true", "s:TRUE", "s:True", "s:shi",
                               "n:1", "o:{}"}

C19_Witness ==
    /\ Normalized
    /\ last.def.parameters.required = "o:{}"
    /\ last.api.parameters.required = "b:true"

\* the section the token at i lies in: the one the nearest heading before
\* it opens
OpenedAt(tokens, i) ==
    LET before == { j \in 1 .. i - 1 : tokens[j].type = "heading" }
    IN  IF before = {} THEN "null"
        ELSE LET j == CHOOSE x \in before : \A y \in before : y <= x
             IN  SectionOf(ToLowerCase(tokens[j].text))

\* the text of the last paragraph of the sections a heading of the given
\* kind opens, Undef when there is none
SectionText(tokens, section) ==
    LET paragraphs == { i \in 1 .. Len(tokens) :
                          tokens[i].type = "paragraph"
                          /\ OpenedAt(tokens, i) = section }
    IN  IF paragraphs = {} THEN Undef
        ELSE Trim(tokens[CHOOSE x \in paragraphs : \A y \in paragraphs : y <= x].text)

\* a parameters table without a type or a required column, on whose rows
\* the parser throws
LacksColumns(tokens) ==
    \E i \in 1 .. Len(tokens) :
        /\ tokens[i].type = "table"
        /\ OpenedAt(tokens, i) = "parameters"
        /\ \E r \in 2 .. Len(tokens[i].rows) :
               /\ ~Falsy(Trim(tokens[i].rows[r][1]))
               /\ tokens[i].rows[r][2] = Undef \/ tokens[i].rows[r][3] = Undef

ParseOps == {"parseJsonAPI", "parseMarkdownAPI"}

\* what a parser returned has a name and a url, or it is null
NamedAndLocated(withEndpoint) ==
    loaded.parsed.nil
    \/ /\ ~Falsy(loaded.parsed.name)
       /\ ~Falsy(loaded.parsed.url) \/ (withEndpoint /\ ~Falsy(loaded.parsed.endpoint))

C21_ArgumentUnchanged ==
    last.op = "parseJsonAPI" => loaded.argument = loaded.content

\* the data rows of the tables of a section: marked keeps the header row
\* apart from token.rows, so every element of rows is a data row
DataRows(tokens, section) ==
    UNION { { tokens[i].rows[r] : r \in 1 .. Len(tokens[i].rows) } :
              i \in { j \in 1 .. Len(tokens) :
                        tokens[j].type = "table"
                        /\ OpenedAt(tokens, j) = section } }

\* C22: only the header row of a table is skipped: a data row of the
\* parameters table that names a parameter yields that parameter, and a data
\* row of the headers table with a name and a value yields that header
C22_EveryDataRowRead ==
    (last.op = "parseMarkdownAPI" /\ ~loaded.parsed.nil) =>
        /\ (\E row \in DataRows(loaded.md.tokens, "parameters") :
                Trim(row[1]) = "p")
               => loaded.parsed.parameters.shape = "mapping"
        /\ (\E row \in DataRows(loaded.md.tokens, "headers") :
                Trim(row[1]) = "A" /\ ~Falsy(row[2]) /\ Trim(row[2]) # "")
               => loaded.parsed.headers["A"] # Undef

\* C23: a definition in the format the README documents is parsed into a
\* definition named by its level-1 heading, with the url, the method and the
\* result path of its sections
C23_ReadmeFormatParsed ==
    (last.op = "parseMarkdownAPI" /\ loaded.md = ReadmeMd) =>
        /\ ~loaded.parsed.nil
        /\ loaded.parsed.name = "Weather API"
        /\ loaded.parsed.url = "http://h/one"
        /\ loaded.parsed.method = "GET"
        /\ loaded.parsed.resultPath = "data"

\* the url holds a token ":key" that no word character follows
HasToken(url, key) ==
    \E i \in 1 .. Len(url) :
        /\ i + Len(key) <= Len(url)
        /\ SubSeq(url, i, i + Len(key)) = ":" \o key
        /\ \/ i + Len(key) = Len(url)
           \/ SubSeq(url, i + Len(key) + 1, i + Len(key) + 1) \notin WordChars

\* the url a call starts from: the url of the definition bound to the tool,
\* or the endpoint of the method, which the base url is only put in front of
TemplateOf(call) ==
    IF call.op = "invoke" THEN call.api.url
    ELSE call.mapi.methods[1].endpoint

\* C24: in the url of the request every token ":k" of an argument k the
\* caller gave is replaced by its value, a token of a parameter the caller
\* did not give is left as it is, and the arguments placed as the query or
\* the body still hold k with its value
C24_PathParamsSubstituted ==
    (last.op \in {"invoke", "executeApiMethod"} /\ last.request # NoRequest)
        => \A k \in ArgKeys :
               IF last.args[k] = Undef
               THEN HasToken(TemplateOf(last), k) => HasToken(last.request.url, k)
               ELSE /\ ~HasToken(last.request.url, k)
                    /\ \/ last.request.params[k] = last.args[k]
                       \/ last.request.data[k] = last.args[k]

\* C25: an invocation that omits a declared parameter is rejected before any
\* request when the parameter is required and has no default, is dispatched
\* with the default when one is declared, and is dispatched when the
\* parameter is not required
C25_SchemaEnforced ==
    (last.op = "schema" /\ last.object = UndefVal) =>
        IF last.dflt # UndefVal
        THEN ~last.threw /\ last.value = last.dflt /\ last.request # NoRequest
        ELSE IF last.def.parameters.required = "b:true"
        THEN last.threw /\ last.request = NoRequest
        ELSE ~last.threw /\ last.request # NoRequest

DirectoryOps == {"loadApisFromDirectory", "load_apis_from_directory"}

\* the definition a file gives when it is loaded, NullDef when it gives none
DefinitionOf(file) ==
    IF ~file.readable THEN NullDef
    ELSE IF file.ext = ".json"
    THEN IF file.json.decodes /\ validateApiDefinition(file.json.value).ok
         THEN validateApiDefinition(file.json.value).api
         ELSE NullDef
    ELSE IF file.ext \in {".md", ".markdown"}
            /\ ~parseMarkdownAPI(file.md).nil
            /\ validateApiDefinition(parseMarkdownAPI(file.md)).ok
    THEN validateApiDefinition(parseMarkdownAPI(file.md)).api
    ELSE NullDef

\* C26: a directory load registers the JSON files and then the Markdown
\* files, so when a JSON file and a Markdown file of the directory define
\* the same name, the registry is left with the Markdown definition
C26_MarkupDefinitionWins ==
    last.op \in DirectoryOps =>
        \A i, j \in 1 .. Len(loaded.files) :
            (/\ loaded.files[i].ext = ".json"
             /\ loaded.files[j].ext \in {".md", ".markdown"}
             /\ ~DefinitionOf(loaded.files[i]).nil
             /\ ~DefinitionOf(loaded.files[j]).nil
             /\ DefinitionOf(loaded.files[i]).name = DefinitionOf(loaded.files[j]).name)
                => /\ DefinitionOf(loaded.files[j]).name \in DOMAIN apiRegistry
                   /\ apiRegistry[DefinitionOf(loaded.files[j]).name]
                          = DefinitionOf(loaded.files[j])

\* C27: a directory load hands each file it finds to loadApiFile at most
\* once, with the default patterns and with a pattern the caller gives
C27_EachFileLoadedOnce ==
    last.op \in DirectoryOps =>
        \A i, j \in 1 .. Len(loaded.submitted) :
            loaded.submitted[i] = loaded.submitted[j] => i = j

\* C28: when load_from_config returns its success result, every directory
\* the configuration lists has been loaded to its end: no directory load is
\* left running, and the definitions of its files the registry can take are
\* in the registry
C28_DirectoriesLoadedOnReturn ==
    (last.op = "load_from_config" /\ ~last.isError) =>
        /\ pendingLoads = << >>
        /\ \A d \in 1 .. Len(loaded.config.apiDirectories) :
               \A f \in 1 .. Len(loaded.config.apiDirectories[d].it) :
                   (/\ loaded.config.apiDirectories[d].exists
                    /\ loaded.config.decodes
                    /\ ToLowerCase(loaded.config.ext) \in ConfigExtensions
                    /\ ~DefinitionOf(loaded.config.apiDirectories[d].it[f]).nil)
                       => DefinitionOf(loaded.config.apiDirectories[d].it[f]).name
                              \in DOMAIN apiRegistry

\* C29: whatever is registered, unregistered or loaded, under the name of a
\* built-in tool too, the seven built-in tools stay bound to their handlers
C29_BuiltinToolsStayBound ==
    \A t \in BuiltinTools : t \in DOMAIN tools /\ tools[t] = BuiltinBinding

\* a definition named as a built-in tool was handed to register_web_api or
\* loaded from a file, or unregister_api was called with that name, after an
\* API had been registered
C29_Witness ==
    /\ apiRegistry # << >>
    /\ \/ last.op = "register_web_api" /\ last.def.name \in BuiltinTools
       \/ last.op = "unregister_api" /\ last.name \in BuiltinTools
       \/ last.op = "load_api_from_file" /\ loaded.file = BuiltinNameJson

\* C30: testApiConnection never rejects: when the request fails, by an error
\* status, a timeout or no response, its promise resolves to a result that
\* reports the failure
C30_TestNeverRejects ==
    (last.op = "testApiConnection" /\ last.outcome \in FailedOutcomes)
        => ~last.threw /\ last.error = NoError

====
